---- MODULE Spec2Model ----
(***************************************************************************)
(* State-machine model of the cardiac_vus pipeline scripts:                *)
(*   - scripts/build_dbnsfp_subset.py  (reference subset extractor)        *)
(*   - scripts/build_features.py, app.py:_build_features_from_vep          *)
(*     (feature builder: annotation decoding, canonical selection, join)   *)
(*   - scripts/build_dataset.py:labels_from_clinvar (label resolution)     *)
(*   - the clinical-significance index and the label column of the three   *)
(*     entry points (build_features.py, build_dataset.py, app.py)          *)
(*   - app.py:_predict_on_df, _evidence_bullets, the lookup flow, and the  *)
(*     matrix build of scripts/train_xgb.py and scripts/train_baseline.py  *)
(* Text is modelled structurally: a line is a record of its tab-separated  *)
(* columns, a chromosome name is a sequence of one-character strings, a    *)
(* numeric column is a text token with an explicit integer parse.          *)
(***************************************************************************)
EXTENDS Integers, Sequences, FiniteSets, TLC

VARIABLES
    \* ---- reference subset extractor (build_dbnsfp_subset.py:main) ----
    vcf,        \* the input variant file: a sequence of lines
    shards,     \* dbnsfp directory: normalized chromosome -> shard file (or missing)
    epc,        \* position of main()
    need,       \* defaultdict(set) in insertion order: sequence of [ch, triples]
    header,     \* first line of the first chromosome's shard
    out,        \* lines written to tmp_txt
    outSrc,     \* history: for each line of out, <<chromosome, line number>> it was read from
    written,    \* counter of retained rows
    status,     \* process exit status (-1 while running)
    ci,         \* index into need of the chromosome being scanned
    elog,       \* history: file handles opened and closed, child processes run
    disk,       \* what is stored at the output path and at the text path
    \* ---- canonical selection loop of one data line (build_features.py:49-73) ----
    csq_fields, \* the field names captured from the header
    csq_blocks, \* m.group(1).split(','), each sub-block split on '|'
    sel_i,      \* index of the sub-block the loop is at
    best,       \* the loop's best: [some, row]
    sel_pc,     \* position of the loop
    rec,        \* the record built from best
    \* ---- label resolution of one CLNSIG value (build_dataset.py:32-39) ----
    clnsig,     \* m.group(1).split(',')
    sigs,       \* the set of stripped terms
    label,      \* the resolved label
    res_pc,     \* position of the resolution
    \* ---- feature builder (build_features.py:28-98, app.py:130-206) ----
    fentry,     \* "script": build_features, "app": _build_features_from_vep
    fhdr,       \* the "#" lines at the top of the annotated variant file
    fdata,      \* its data lines
    gtex,       \* the expression table file
    fpc,        \* position of the builder
    ffields,    \* csq_fields as captured by the header parse
    fi,         \* index of the data line the loop is at
    records,    \* the list of rec
    df,         \* the DataFrame: [cols, rows]
    fclin,      \* the clinical-significance source file (or none)
    fX,         \* the model input built by the prediction step
    flog,       \* what the run has printed or shown: a sequence of messages
    \* ---- label assignment (build_features.py:100-125, build_dataset.py, app.py:209-232) ----
    lentry,     \* "features", "dataset" or "app"
    lclin,      \* the lines of the clinical-significance source
    ltable,     \* the rows of the feature table, as the feature builder made them
    lpc,        \* position of the run
    li,         \* index of the source line the index loop is at
    lindex,     \* the index: the entries written, in order
    lcol,       \* the label column
    \* ---- scoring and evidence (app.py:237-282, 294-356, 430-452; train_*.py) ----
    pflow,      \* "upload", "lookup" (app), "xgb", "baseline" (training scripts)
    pshap,      \* lookup flow: the shap import and explainer succeed
    prow,       \* the row of the feature table, as given
    ppc,        \* position of the flow
    pdf,        \* the frame after the encoding of the categorical columns
    pX,         \* the model input
    pev,        \* the evidence emitted for the row
    pcaller     \* the table the caller holds and passes in (df of _process_vcf,
                \* q of the lookup flow, df of train_xgb.main, the stored table)

extVars == <<vcf, shards, epc, need, header, out, outSrc, written, status, ci, elog, disk>>

selVars == <<csq_fields, csq_blocks, sel_i, best, sel_pc, rec>>

resVars == <<clnsig, sigs, label, res_pc>>

featVars == <<fentry, fhdr, fdata, gtex, fpc, ffields, fi, records, df, fclin, fX, flog>>

labVars == <<lentry, lclin, ltable, lpc, li, lindex, lcol>>

predVars == <<pflow, pshap, prow, ppc, pdf, pX, pev, pcaller>>

vars == <<extVars, selVars, resVars, featVars, labVars, predVars>>

\* what each component leaves alone
notExt == <<selVars, resVars, featVars, labVars, predVars>>
notSel == <<extVars, resVars, featVars, labVars, predVars>>
notRes == <<extVars, selVars, featVars, labVars, predVars>>
notFeat == <<extVars, selVars, resVars, labVars, predVars>>
notLab == <<extVars, selVars, resVars, featVars, predVars>>
notPred == <<extVars, selVars, resVars, featVars, labVars>>

----------------------------------------------------------------------------
(* Bounds of the model *)

MaxVcfLines == 2
MaxDirLines == 4
MaxSubBlocks == 3
MaxTerms == 3
MaxFeatLines == 2
MaxExprRows == 2
MaxClinLines == 2
MaxLabelRows == 2

----------------------------------------------------------------------------
(* Generic helpers *)

\* all sequences over S of length 0..n
BoundedSeq(S, n) == UNION { [1..k -> S] : k \in 0..n }

Prefix(s, n) == SubSeq(s, 1, n)

StartsWith(s, p) == Len(s) >= Len(p) /\ Prefix(s, Len(p)) = p

DropN(s, n) == SubSeq(s, n + 1, Len(s))

\* Python int(text): the texts of the model that parse, and their values.
\* "0100" parses to the same integer as "100"; "x" and "pos" raise ValueError.
IntTexts == {"100", "0100", "150", "200"}

IsInt(t) == t \in IntTexts

IntOf(t) ==
    CASE t = "100" -> 100
      [] t = "0100" -> 100
      [] t = "150" -> 150
      [] t = "200" -> 200

----------------------------------------------------------------------------
(* build_dbnsfp_subset.py *)

WhiteSpace == {" "}

RECURSIVE LStripWs(_)
LStripWs(s) ==
    IF s # <<>> /\ Head(s) \in WhiteSpace THEN LStripWs(Tail(s)) ELSE s

RECURSIVE RStripWs(_)
RStripWs(s) ==
    IF s # <<>> /\ s[Len(s)] \in WhiteSpace THEN RStripWs(Prefix(s, Len(s) - 1)) ELSE s

\* str.strip()
Strip(s) == RStripWs(LStripWs(s))

\* norm_chr(ch)
norm_chr(ch) ==
    LET a == Strip(ch)
        b == IF StartsWith(a, <<"c", "h", "r">>) THEN DropN(a, 3) ELSE a
    IN  IF b \in {<<"M", "T">>, <<"M", "t">>, <<"m", "t">>} THEN <<"M">> ELSE b

\* a data line of a variant file: its tab-separated columns.  hash marks a
\* line whose first character is "#"; only the first ncols columns exist.
VLine(h, n, c, p, r, a) ==
    [hash |-> h, ncols |-> n, chrom |-> c, pos |-> p, ref |-> r, alt |-> a]

\* the lines a variant file given to the extractor is made of
ExtVcfLines ==
    { VLine(FALSE, 8, <<"c", "h", "r", "1">>, "100", "A", <<"G">>),
      VLine(FALSE, 8, <<"2">>, "100", "A", <<"G", "T">>),
      VLine(FALSE, 8, <<"1">>, "150", "A", <<"G">>),
      VLine(FALSE, 8, <<"2">>, "x", "A", <<"G">>),
      VLine(FALSE, 4, <<"2">>, "100", "A", <<"G">>) }

\* a line of a shard file: column 2 is the position text, 3 and 4 the alleles
SLine(n, p, r, a) == [ncols |-> n, pos |-> p, ref |-> r, alt |-> a]

ShardLines ==
    { SLine(4, "pos", "ref", "alt"),
      SLine(4, "100", "A", "G"),
      SLine(4, "100", "A", "C") }

\* exit statuses of main()
ExitNoVariants == 1
ExitBadHeader == 1
ExitNoRecords == 2
ExitOk == 0
\* status of a run ended by an uncaught exception
ExitUncaught == 1

NoFile == [exists |-> FALSE, lines |-> <<>>]

\* the shard files of at most n lines, and the missing file
ShardFiles(n) ==
    {NoFile} \cup { [exists |-> TRUE, lines |-> l] : l \in BoundedSeq(ShardLines, n) }

Chroms == { norm_chr(l.chrom) : l \in {x \in ExtVcfLines : ~x.hash} }

\* position of ch among the keys of the ordered dict d (0 when absent)
KeyIndex(d, ch) ==
    IF \E i \in 1..Len(d) : d[i].ch = ch
    THEN CHOOSE i \in 1..Len(d) : d[i].ch = ch
    ELSE 0

\* mutant: a new key goes first
NeedAdd_Front(d, ch, t) ==
    LET i == KeyIndex(d, ch)
    IN  IF i = 0
        THEN <<[ch |-> ch, triples |-> {t}]>> \o d
        ELSE [d EXCEPT ![i].triples = @ \cup {t}]

\* need[ch].add(t) on a defaultdict(set): a new key goes last
NeedAdd(d, ch, t) ==
    LET i == KeyIndex(d, ch)
    IN  IF i = 0
        THEN Append(d, [ch |-> ch, triples |-> {t}])
        ELSE [d EXCEPT ![i].triples = @ \cup {t}]

\* the loop over alt.split(",") of parse_vcf_variants for one line
RECURSIVE AddAlts(_, _, _, _)
AddAlts(d, ch, line, alts) ==
    IF alts = <<>> THEN d
    ELSE IF ~IsInt(line.pos) THEN AddAlts(d, ch, line, Tail(alts))
    ELSE AddAlts(NeedAdd(d, ch, <<IntOf(line.pos), line.ref, Head(alts)>>),
                 ch, line, Tail(alts))

\* the body of the line loop of parse_vcf_variants
ParseVcfLine(d, line) ==
    IF line.hash THEN d
    ELSE IF line.ncols < 5 THEN d
    ELSE AddAlts(d, norm_chr(line.chrom), line, line.alt)

RECURSIVE ParseFrom(_, _)
ParseFrom(d, lines) ==
    IF lines = <<>> THEN d ELSE ParseFrom(ParseVcfLine(d, Head(lines)), Tail(lines))

\* parse_vcf_variants(vcf_path)
parse_vcf_variants(lines) == ParseFrom(<<>>, lines)

\* guess_chr_file(dbnsfp_dir, ch): some candidate path exists
guess_chr_file_found(dir, ch) == dir[ch].exists

\* by_pos.get(pos, ()) for the by_pos built from triples
ByPosGet(triples, p) == { <<t[2], t[3]>> : t \in {u \in triples : u[1] = p} }

\* mutant: a row is kept as soon as its position is needed
MatchRow_PosOnly(line, triples) ==
    /\ line.ncols >= 4
    /\ IsInt(line.pos)
    /\ ByPosGet(triples, IntOf(line.pos)) # {}

\* the row test of the scan loop: enough columns, integer position,
\* (ref, alt) among the pairs needed at that position
MatchRow(line, triples) ==
    /\ line.ncols >= 4
    /\ IsInt(line.pos)
    /\ <<line.ref, line.alt>> \in ByPosGet(triples, IntOf(line.pos))

\* line numbers of the rows the scan loop writes from line i on
RECURSIVE ScanFrom(_, _, _)
ScanFrom(lines, i, triples) ==
    IF i > Len(lines) THEN <<>>
    ELSE IF MatchRow(lines[i], triples)
         THEN <<i>> \o ScanFrom(lines, i + 1, triples)
         ELSE ScanFrom(lines, i + 1, triples)

\* mutant: the shard's own first line is scanned like a data row
ScanShard_NoSkip(lines, triples) == ScanFrom(lines, 1, triples)

\* the scan of one shard: hdr_seen makes the loop skip the first line
ScanShard(lines, triples) == ScanFrom(lines, 2, triples)

\* the ways to give the chromosomes cs shard files of n lines in total
RECURSIVE DirsOf(_, _)
DirsOf(cs, n) ==
    IF cs = {} THEN { [c \in Chroms |-> NoFile] }
    ELSE LET c == CHOOSE x \in cs : TRUE
         IN  UNION { { [d EXCEPT ![c] = f] : d \in DirsOf(cs \ {c}, n - Len(f.lines)) } :
                       f \in ShardFiles(n) }

\* the directories given with variant file v: at most MaxDirLines lines
ShardDirs(v) ==
    LET d == parse_vcf_variants(v)
    IN  DirsOf({ d[i].ch : i \in 1..Len(d) }, MaxDirLines)

\* an event of the run: a file handle opened or closed (mode "r" or "w"),
\* or a child process run
Ev(op, mode, file) == [op |-> op, mode |-> mode, file |-> file]

\* mutant: the file is left open
ReadEvents_NotClosed(file) == << Ev("open", "r", file) >>

\* "with opener(...) as f:": the handle is closed when the block is left
ReadEvents(file) == << Ev("open", "r", file), Ev("close", "r", file) >>

\* the end of "with open(tmp_txt) as out_f", then lines 116-120:
\* stdout=open(out, "wb"), bgzip, tabix.  The handle of out is never closed
\* by the code: it is closed when the object is collected, at the return of
\* subprocess.run or later (closed).
CompressEvents(closed) ==
    << Ev("close", "w", "tmp_txt"), Ev("open", "w", "out"), Ev("run", "x", "bgzip") >>
    \o (IF closed THEN << Ev("close", "w", "out") >> ELSE <<>>)
    \o << Ev("run", "x", "tabix") >>

\* mutant: the merged text is written at the output path itself
tmp_txt_AtOutputPath == "out"

\* tmp_txt = out.with_suffix(""): the path of the merged text
tmp_txt == "tmp"

\* what the two paths hold before a run: the output of an earlier run and
\* the merged text a failed run left behind (a run over empty paths has
\* nothing to leave unchanged)
Disks == { [before |-> "old", out |-> "old", tmp |-> "stale"] }

IdleExt ==
    /\ vcf = <<>>
    /\ shards = [c \in Chroms |-> NoFile]
    /\ epc = "idle"
    /\ need = <<>>
    /\ header = SLine(0, "", "", "")
    /\ out = <<>>
    /\ outSrc = <<>>
    /\ written = 0
    /\ status = -1
    /\ ci = 0
    /\ elog = <<>>
    /\ disk = [before |-> "absent", out |-> "absent", tmp |-> "absent"]

StartExt ==
    /\ vcf \in BoundedSeq(ExtVcfLines, MaxVcfLines)
    \* the directory: a shard no variant of the file needs is never looked
    \* at, so only the needed chromosomes' shards vary
    /\ shards \in ShardDirs(vcf)
    /\ epc = "start"
    /\ need = <<>>
    /\ header = SLine(0, "", "", "")
    /\ out = <<>>
    /\ outSrc = <<>>
    /\ written = 0
    /\ status = -1
    /\ ci = 0
    /\ elog = <<>>
    /\ disk \in Disks

\* need = parse_vcf_variants(vcf)
ExtParse ==
    /\ epc = "start"
    /\ need' = parse_vcf_variants(vcf)
    /\ epc' = "parsed"
    /\ elog' = elog \o ReadEvents("vcf")
    /\ UNCHANGED <<vcf, shards, header, out, outSrc, written, status, ci, disk>>
    /\ UNCHANGED notExt

\* if not need: sys.exit(1)
ExtNoVariants ==
    /\ epc = "parsed"
    /\ need = <<>>
    /\ epc' = "exit"
    /\ status' = ExitNoVariants
    /\ UNCHANGED <<vcf, shards, need, header, out, outSrc, written, ci, elog, disk>>
    /\ UNCHANGED notExt

\* guess_chr_file(first_chr) raises FileNotFoundError: uncaught, the run ends
ExtFirstShardMissing ==
    /\ epc = "parsed"
    /\ need # <<>>
    /\ ~guess_chr_file_found(shards, need[1].ch)
    /\ epc' = "crash"
    /\ status' = ExitUncaught
    /\ UNCHANGED <<vcf, shards, need, header, out, outSrc, written, ci, elog, disk>>
    /\ UNCHANGED notExt

\* header = f.readline() of the first chromosome's shard
ExtReadHeader ==
    /\ epc = "parsed"
    /\ need # <<>>
    /\ guess_chr_file_found(shards, need[1].ch)
    /\ LET lines == shards[need[1].ch].lines
       IN  IF lines = <<>> \/ lines[1].ncols < 2
           THEN /\ epc' = "exit"
                /\ status' = ExitBadHeader
                /\ UNCHANGED header
           ELSE /\ epc' = "header"
                /\ header' = lines[1]
                /\ UNCHANGED status
    /\ elog' = elog \o ReadEvents("shard")
    /\ UNCHANGED <<vcf, shards, need, out, outSrc, written, ci, disk>>
    /\ UNCHANGED notExt

\* open(tmp_txt, "wt"); out_f.write(header)
ExtOpenOut ==
    /\ epc = "header"
    /\ out' = <<header>>
    /\ outSrc' = << <<need[1].ch, 1>> >>
    /\ written' = 0
    /\ ci' = 1
    /\ epc' = "scan"
    /\ elog' = Append(elog, Ev("open", "w", "tmp_txt"))
    /\ disk' = [disk EXCEPT ![tmp_txt] = "text"]
    /\ UNCHANGED <<vcf, shards, need, header, status>>
    /\ UNCHANGED notExt

\* one iteration of "for ch, triples in need.items()": the shard resolves and is scanned
ExtScan ==
    /\ epc = "scan"
    /\ ci <= Len(need)
    /\ guess_chr_file_found(shards, need[ci].ch)
    /\ LET lines == shards[need[ci].ch].lines
           kept == ScanShard(lines, need[ci].triples)
       IN  /\ out' = out \o [k \in 1..Len(kept) |-> lines[kept[k]]]
           /\ outSrc' = outSrc \o [k \in 1..Len(kept) |-> <<need[ci].ch, kept[k]>>]
           /\ written' = written + Len(kept)
    /\ ci' = ci + 1
    /\ elog' = elog \o ReadEvents("shard")
    /\ UNCHANGED <<vcf, shards, epc, need, header, status, disk>>
    /\ UNCHANGED notExt

\* guess_chr_file(ch) raises inside the loop: uncaught, the run ends
ExtShardMissing ==
    /\ epc = "scan"
    /\ ci <= Len(need)
    /\ ~guess_chr_file_found(shards, need[ci].ch)
    /\ epc' = "crash"
    /\ status' = ExitUncaught
    /\ elog' = Append(elog, Ev("close", "w", "tmp_txt"))
    /\ UNCHANGED <<vcf, shards, need, header, out, outSrc, written, ci, disk>>
    /\ UNCHANGED notExt

\* mutant: the zero-rows exit is also taken after a single retained row
ExtNoRecords_OffByOne ==
    /\ epc = "scan"
    /\ ci > Len(need)
    /\ written <= 1
    /\ epc' = "exit"
    /\ status' = ExitNoRecords
    /\ elog' = Append(elog, Ev("close", "w", "tmp_txt"))
    /\ UNCHANGED <<vcf, shards, need, header, out, outSrc, written, ci, disk>>
    /\ UNCHANGED notExt

\* if written == 0: sys.exit(2)
ExtNoRecords ==
    /\ epc = "scan"
    /\ ci > Len(need)
    /\ written = 0
    /\ epc' = "exit"
    /\ status' = ExitNoRecords
    /\ elog' = Append(elog, Ev("close", "w", "tmp_txt"))
    /\ UNCHANGED <<vcf, shards, need, header, out, outSrc, written, ci, disk>>
    /\ UNCHANGED notExt

\* bgzip, tabix, unlink tmp_txt, normal return
ExtCompress ==
    /\ epc = "scan"
    /\ ci > Len(need)
    /\ written # 0
    /\ epc' = "done"
    /\ status' = ExitOk
    /\ (\E closed \in BOOLEAN : elog' = elog \o CompressEvents(closed))
    /\ disk' = [disk EXCEPT !["out"] = "bgzf", ![tmp_txt] = "absent"]
    /\ UNCHANGED <<vcf, shards, need, header, out, outSrc, written, ci>>
    /\ UNCHANGED notExt

NextExt ==
    \/ ExtParse
    \/ ExtNoVariants
    \/ ExtFirstShardMissing
    \/ ExtReadHeader
    \/ ExtOpenOut
    \/ ExtScan
    \/ ExtShardMissing
    \/ ExtNoRecords
    \/ ExtCompress


----------------------------------------------------------------------------
(* build_features.py / app.py: canonical selection for one data line *)

\* Python None where a string is expected
None == "<None>"

\* the columns build_features copies from the selected annotation
want ==
    << "Consequence", "IMPACT", "SYMBOL", "gnomADg_AF", "SIFT_pred",
       "Polyphen2_HVAR_pred", "Polyphen2_HDIV_pred", "GERP++_RS",
       "phyloP100way_vertebrate" >>

Range(s) == { s[i] : i \in 1..Len(s) }

MaxOf(S) == CHOOSE m \in S : \A n \in S : n <= m

MinOf(S) == CHOOSE m \in S : \A n \in S : m <= n

\* {k: v for k, v in zip(csq_fields, vals)}: a repeated name keeps its last value
ZipRow(fields, vals) ==
    [k \in Range(fields) |-> vals[MaxOf({ i \in 1..Len(fields) : fields[i] = k })]]

\* row.get(k)
Get(row, k) == IF k \in DOMAIN row THEN row[k] ELSE None

NoBest == [some |-> FALSE, row |-> [k \in {} |-> None]]

\* mutant: the first retained sub-block is kept whatever its CANONICAL value
SelStep_FirstWins(st, vals, fields) ==
    IF Len(vals) # Len(fields) THEN st
    ELSE IF ~st.best.some
         THEN [best |-> [some |-> TRUE, row |-> ZipRow(fields, vals)], stop |-> FALSE]
         ELSE st

\* one iteration of "for csq in m.group(1).split(',')" on the loop state
\* st = [best, stop]; stop is the break
SelStep(st, vals, fields) ==
    IF Len(vals) # Len(fields) THEN st
    ELSE LET row == ZipRow(fields, vals)
         IN  IF Get(row, "CANONICAL") = "YES"
             THEN [best |-> [some |-> TRUE, row |-> row], stop |-> TRUE]
             ELSE IF ~st.best.some
                  THEN [best |-> [some |-> TRUE, row |-> row], stop |-> FALSE]
                  ELSE st

\* the whole loop from sub-block i on
RECURSIVE SelectFrom(_, _, _, _)
SelectFrom(st, blocks, i, fields) ==
    IF st.stop \/ i > Len(blocks) THEN st.best
    ELSE SelectFrom(SelStep(st, blocks[i], fields), blocks, i + 1, fields)

\* best after the loop over the sub-blocks of one CSQ value
SelectBest(blocks, fields) ==
    SelectFrom([best |-> NoBest, stop |-> FALSE], blocks, 1, fields)

\* for k in want: rec[k] = best.get(k)
WantedOf(row) == [k \in Range(want) |-> Get(row, k)]

\* the field lists a header declares in the model (<<>>: none declared)
FieldLists ==
    { <<>>, <<"SYMBOL">>, <<"SYMBOL", "CANONICAL">>, <<"CANONICAL", "SYMBOL">> }

\* sub-blocks, already split on "|"
SubBlocks ==
    { <<"G1", "YES">>, <<"G2", "">>, <<"YES", "G3">>, <<"G4">> }

NonEmptySeq(S, n) == BoundedSeq(S, n) \ {<<>>}

IdleSel ==
    /\ csq_fields = <<>>
    /\ csq_blocks = <<>>
    /\ sel_i = 0
    /\ best = NoBest
    /\ sel_pc = "idle"
    /\ rec = [k \in Range(want) |-> None]

StartSel ==
    /\ csq_fields \in FieldLists
    /\ csq_blocks \in NonEmptySeq(SubBlocks, MaxSubBlocks)
    /\ sel_i = 1
    /\ best = NoBest
    /\ sel_pc = "loop"
    /\ rec = [k \in Range(want) |-> None]

SelIter == SelStep([best |-> best, stop |-> FALSE], csq_blocks[sel_i], csq_fields)

\* if len(vals) != len(csq_fields): continue
SelDiscard ==
    /\ sel_pc = "loop" /\ sel_i <= Len(csq_blocks)
    /\ Len(csq_blocks[sel_i]) # Len(csq_fields)
    /\ best' = SelIter.best
    /\ sel_i' = sel_i + 1
    /\ UNCHANGED <<csq_fields, csq_blocks, sel_pc, rec>>
    /\ UNCHANGED notSel

\* if row.get('CANONICAL') == 'YES': best = row; break
SelCanonical ==
    /\ sel_pc = "loop" /\ sel_i <= Len(csq_blocks)
    /\ Len(csq_blocks[sel_i]) = Len(csq_fields)
    /\ SelIter.stop
    /\ best' = SelIter.best
    /\ sel_pc' = "end"
    /\ UNCHANGED <<csq_fields, csq_blocks, sel_i, rec>>
    /\ UNCHANGED notSel

\* a retained, non-canonical sub-block: if best is None: best = row
SelOther ==
    /\ sel_pc = "loop" /\ sel_i <= Len(csq_blocks)
    /\ Len(csq_blocks[sel_i]) = Len(csq_fields)
    /\ ~SelIter.stop
    /\ best' = SelIter.best
    /\ sel_i' = sel_i + 1
    /\ UNCHANGED <<csq_fields, csq_blocks, sel_pc, rec>>
    /\ UNCHANGED notSel

\* the sub-blocks are exhausted
SelExhausted ==
    /\ sel_pc = "loop" /\ sel_i > Len(csq_blocks)
    /\ sel_pc' = "end"
    /\ UNCHANGED <<csq_fields, csq_blocks, sel_i, best, rec>>
    /\ UNCHANGED notSel

\* if best is None: continue  (the data line gives no record)
SelDrop ==
    /\ sel_pc = "end" /\ ~best.some
    /\ sel_pc' = "dropped"
    /\ UNCHANGED <<csq_fields, csq_blocks, sel_i, best, rec>>
    /\ UNCHANGED notSel

\* rec[k] = best.get(k) for k in want; records.append(rec)
SelEmit ==
    /\ sel_pc = "end" /\ best.some
    /\ rec' = WantedOf(best.row)
    /\ sel_pc' = "emitted"
    /\ UNCHANGED <<csq_fields, csq_blocks, sel_i, best>>
    /\ UNCHANGED notSel

NextSel ==
    \/ SelDiscard
    \/ SelCanonical
    \/ SelOther
    \/ SelExhausted
    \/ SelDrop
    \/ SelEmit

----------------------------------------------------------------------------
(* build_dataset.py / build_features.py / app.py: label resolution *)

\* label is None
NoLabel == -1

\* s.strip() on the terms of the model
StripTerm(t) ==
    CASE t = " Pathogenic" -> "Pathogenic"
      [] t = "Benign " -> "Benign"
      [] OTHER -> t

\* the terms a CLNSIG value is made of
Terms ==
    { "Pathogenic", "Likely_pathogenic", "Benign", "Likely_benign",
      "Uncertain_significance", "Pathogenic/Likely_pathogenic",
      " Pathogenic", "Benign " }

\* sigs = {s.strip() for s in m.group(1).split(',')}
SigSet(terms) == { StripTerm(terms[i]) : i \in 1..Len(terms) }

\* mutant: the first term that maps to a label decides
RECURSIVE ResolveLabel_FirstTerm(_)
ResolveLabel_FirstTerm(terms) ==
    IF terms = <<>> THEN NoLabel
    ELSE IF StripTerm(Head(terms)) \in {"Pathogenic", "Likely_pathogenic"} THEN 1
    ELSE IF StripTerm(Head(terms)) \in {"Benign", "Likely_benign"} THEN 0
    ELSE ResolveLabel_FirstTerm(Tail(terms))

\* the if / elif on sigs
ResolveLabel(terms) ==
    LET ss == SigSet(terms)
    IN  IF "Pathogenic" \in ss \/ "Likely_pathogenic" \in ss THEN 1
        ELSE IF "Benign" \in ss \/ "Likely_benign" \in ss THEN 0
        ELSE NoLabel

IdleRes ==
    /\ clnsig = <<>>
    /\ sigs = {}
    /\ label = NoLabel
    /\ res_pc = "idle"

StartRes ==
    /\ clnsig \in NonEmptySeq(Terms, MaxTerms)
    /\ sigs = {}
    /\ label = NoLabel
    /\ res_pc = "split"

\* sigs = {s.strip() for s in m.group(1).split(',')}; label = None
ResSplit ==
    /\ res_pc = "split"
    /\ sigs' = SigSet(clnsig)
    /\ label' = NoLabel
    /\ res_pc' = "test"
    /\ UNCHANGED clnsig
    /\ UNCHANGED notRes

\* if ... : label = 1 / elif ... : label = 0, and the entry written to the index
ResRecord ==
    /\ res_pc = "test"
    /\ ResolveLabel(clnsig) # NoLabel
    /\ label' = ResolveLabel(clnsig)
    /\ res_pc' = "recorded"
    /\ UNCHANGED <<clnsig, sigs>>
    /\ UNCHANGED notRes

\* label stays None: nothing is recorded
ResSkip ==
    /\ res_pc = "test"
    /\ ResolveLabel(clnsig) = NoLabel
    /\ res_pc' = "unlabeled"
    /\ UNCHANGED <<clnsig, sigs, label>>
    /\ UNCHANGED notRes

NextRes ==
    \/ ResSplit
    \/ ResRecord
    \/ ResSkip

----------------------------------------------------------------------------
(* build_features.py:build_features / app.py:_build_features_from_vep *)

\* a "#" line of the variant file.  kind "csq": starts with ##INFO=<ID=CSQ,
\* format: the Format clause matched; kind "chrom": starts with #CHROM
HLine(k, m, f) == [kind |-> k, format |-> m, fields |-> f]

ChromLine == HLine("chrom", FALSE, <<>>)

\* the header sections of the model
FeatHeaders ==
    { <<ChromLine>>,
      <<HLine("csq", TRUE, <<"SYMBOL", "CANONICAL">>), ChromLine>>,
      <<HLine("csq", TRUE, <<"SYMBOL", "CANONICAL">>), HLine("csq", TRUE, <<"SYMBOL">>),
        ChromLine>>,
      <<ChromLine, HLine("csq", TRUE, <<"SYMBOL", "CANONICAL">>)>> }

\* the line loop of parse_csq_header: the last declaration before #CHROM
RECURSIVE HeaderFrom(_, _)
HeaderFrom(fields, lines) ==
    IF lines = <<>> THEN fields
    ELSE LET l == Head(lines)
             f == IF l.kind = "csq" /\ l.format THEN l.fields ELSE fields
         IN  IF l.kind = "chrom" THEN f ELSE HeaderFrom(f, Tail(lines))

\* parse_csq_header(vcf_path)
parse_csq_header(lines) == HeaderFrom(<<>>, lines)

\* an INFO entry key=value; the value is its comma-separated items, each
\* split on "|".  The empty text is one item holding one empty part.
Entry(k, v) == [key |-> k, val |-> v]

EmptyVal == << <<"">> >>

\* the keys of the model that end with the text of tag
KeysEndingWith(tag) ==
    CASE tag = "CSQ" -> {"CSQ", "XCSQ"}
      [] tag = "CLNSIG" -> {"CLNSIG", "ONC_CLNSIG"}

\* re.search(tag + r'=([^;]+)', info): index of the leftmost entry whose key
\* ends with tag and whose value is not empty (0: no match)
InfoSearch(info, tag) ==
    LET hits == { i \in 1..Len(info) :
                    info[i].key \in KeysEndingWith(tag) /\ info[i].val # EmptyVal }
    IN  IF hits = {} THEN 0 ELSE MinOf(hits)

\* a data line of the annotated variant file
FLine(n, c, p, r, a, v, i) ==
    [hash |-> FALSE, ncols |-> n, chrom |-> c, pos |-> p, ref |-> r, alt |-> a,
     id |-> v, info |-> i]

FeatLines ==
    { FLine(8, <<"c", "h", "r", "1">>, "100", "A", "G", "rs1",
            << Entry("AF", << <<"0.1">> >>),
               Entry("CSQ", << <<"G1", "">>, <<"G2", "YES">> >>) >>),
      FLine(8, <<"2">>, "200", "C", "T", "rs2",
            << Entry("CSQ", << <<"G9">>, <<"G3", "">> >>) >>),
      FLine(8, <<"1">>, "150", "A", "G", "rs3",
            << Entry("AF", << <<"0.1">> >>) >>),
      FLine(7, <<"1">>, "150", "A", "G", "rs4", <<>>),
      FLine(8, <<"2">>, "x", "A", "G", "rs5",
            << Entry("CSQ", << <<"G1", "YES">> >>) >>) }

\* str.lstrip(chars): leading characters that are in chars are removed
RECURSIVE LStrip(_, _)
LStrip(s, chars) ==
    IF s # <<>> /\ Head(s) \in chars THEN LStrip(Tail(s), chars) ELSE s

\* chrom.lstrip('chr')
StripChr(c) == LStrip(c, {"c", "h", "r"})

\* mutant: a data line whose sub-blocks were all discarded still gives a
\* record (of defaults)
LineOutcome_KeepUnannotated(line, fields) ==
    IF line.hash THEN "skip"
    ELSE IF line.ncols < 8 THEN "skip"
    ELSE IF InfoSearch(line.info, "CSQ") = 0 THEN "skip"
    ELSE IF ~IsInt(line.pos) THEN "raise"
    ELSE "rec"

\* what the loop body makes of one data line:
\*   "skip"  continue (comment, too few columns, no CSQ match, best is None)
\*   "raise" int(pos) raises ValueError
\*   "rec"   a record is appended
LineOutcome(line, fields) ==
    IF line.hash THEN "skip"
    ELSE IF line.ncols < 8 THEN "skip"
    ELSE IF InfoSearch(line.info, "CSQ") = 0 THEN "skip"
    ELSE IF ~SelectBest(line.info[InfoSearch(line.info, "CSQ")].val, fields).some THEN "skip"
    ELSE IF ~IsInt(line.pos) THEN "raise"
    ELSE "rec"

\* rec for a data line whose outcome is "rec"
LineRecord(line, fields) ==
    LET b == SelectBest(line.info[InfoSearch(line.info, "CSQ")].val, fields)
    IN  [chrom |-> StripChr(line.chrom), pos |-> IntOf(line.pos), ref |-> line.ref,
         alt |-> line.alt, id |-> line.id] @@ WantedOf(b.row)

\* NaN / missing cell of a DataFrame
NaN == "<NaN>"

\* pd.to_numeric(errors='coerce') on one cell
ToNumeric(v) == IF v \in {None, NaN, "", "."} THEN NaN ELSE v

NumericCols == {"gnomADg_AF", "GERP++_RS", "phyloP100way_vertebrate"}

RecordCols == <<"chrom", "pos", "ref", "alt", "id">> \o want

\* pd.DataFrame.from_records(records) followed by the coercions: no records
\* give a frame without columns
MakeDf(recs) ==
    IF recs = <<>> THEN [cols |-> <<>>, rows |-> <<>>]
    ELSE [cols |-> RecordCols,
          rows |-> [i \in 1..Len(recs) |->
                      [c \in DOMAIN recs[i] |->
                         IF c \in NumericCols THEN ToNumeric(recs[i][c]) ELSE recs[i][c]]]]

\* c.strip().lower().startswith(...) on the column names of the model
IsLvCol(c) == c \in {"Heart - Left Ventricle", "heart - left ventricle (n=432)"}
IsAaCol(c) == c \in {"Heart - Atrial Appendage"}

\* the column layouts of the expression tables of the model
ExprLayouts ==
    { <<"gene", "Heart - Left Ventricle", "Heart - Atrial Appendage">>,
      <<"Name", "Description", "heart - left ventricle (n=432)">>,
      <<"Name", "Heart - Atrial Appendage">>,
      <<"Id", "Heart - Left Ventricle">> }

\* the rows: gene symbol, left-ventricle and atrial-appendage values
ExprRows == { <<"G1", "1.0", "2.0">>, <<"G2", "3.0", "4.0">>, <<"G2", "5.0", "6.0">> }

\* the table read from a file with layout cols and the given rows
ExprTable(cols, rows) ==
    [readable |-> TRUE,
     cols |-> cols,
     rows |-> [i \in 1..Len(rows) |->
                 [c \in Range(cols) |->
                    IF c \in {"gene", "Description", "Id"} THEN rows[i][1]
                    ELSE IF c = "Name" THEN
                        (IF "Description" \in Range(cols) THEN "ENSG" ELSE rows[i][1])
                    ELSE IF IsLvCol(c) THEN rows[i][2]
                    ELSE rows[i][3]]]]

NoTable == [readable |-> FALSE, cols |-> <<>>, rows |-> <<>>]

\* the expression table files of the model: every row sequence under the
\* first layout, one row sequence under each layout, and the unreadable file
ExprFiles ==
    {NoTable}
    \cup { ExprTable(<<"gene", "Heart - Left Ventricle", "Heart - Atrial Appendage">>, r) :
             r \in BoundedSeq(ExprRows, MaxExprRows) }
    \cup { ExprTable(l, << <<"G2", "3.0", "4.0">>, <<"G1", "1.0", "2.0">> >>) :
             l \in ExprLayouts }

\* the name a column of the table has after both renames
RenamedCol(t, c) ==
    IF IsLvCol(c) THEN "heart_lv_tpm"
    ELSE IF IsAaCol(c) THEN "heart_aa_tpm"
    ELSE IF "gene" \notin Range(t.cols) /\ c = "Description" THEN "gene"
    ELSE IF "gene" \notin Range(t.cols) /\ "Description" \notin Range(t.cols) /\ c = "Name"
         THEN "gene"
    ELSE c

\* the original column that carries the renamed name n
SourceCol(t, n) == CHOOSE c \in Range(t.cols) : RenamedCol(t, c) = n

HasCol(t, n) == \E c \in Range(t.cols) : RenamedCol(t, c) = n

\* ['gene'] + [c for c in ['heart_lv_tpm', 'heart_aa_tpm'] if c in gtex.columns]
ExprCols(t) ==
    <<"gene">> \o (IF HasCol(t, "heart_lv_tpm") THEN <<"heart_lv_tpm">> ELSE <<>>)
               \o (IF HasCol(t, "heart_aa_tpm") THEN <<"heart_aa_tpm">> ELSE <<>>)

\* gtex[cols] on the renamed table
ExprSelect(t) ==
    [i \in 1..Len(t.rows) |-> [n \in Range(ExprCols(t)) |-> t.rows[i][SourceCol(t, n)]]]

\* mutant: every row of the table is kept
DropDuplicates_None(rows) == rows

\* drop_duplicates('gene'): the first row of each gene symbol is kept
RECURSIVE DropDuplicates(_)
DropDuplicates(rows) ==
    IF rows = <<>> THEN <<>>
    ELSE LET init == DropDuplicates(Prefix(rows, Len(rows) - 1))
             last == rows[Len(rows)]
         IN  IF \E i \in 1..(Len(rows) - 1) : rows[i].gene = last.gene
             THEN init ELSE Append(init, last)

\* the rows one left row gives in a left merge on SYMBOL = gene, the gene
\* column dropped: one per matching right row, or one with missing values
RECURSIVE MatchesOf(_, _, _)
MatchesOf(row, right, ecols) ==
    IF right = <<>> THEN <<>>
    ELSE (IF Head(right).gene = row["SYMBOL"]
          THEN << row @@ [n \in ecols |-> Head(right)[n]] >>
          ELSE <<>>) \o MatchesOf(row, Tail(right), ecols)

\* mutant: a left row without a match gets zeros for the expression columns
MergeRow_ZeroFill(row, right, ecols) ==
    IF MatchesOf(row, right, ecols) = <<>>
    THEN << row @@ [n \in ecols |-> "0.0"] >>
    ELSE MatchesOf(row, right, ecols)

MergeRow(row, right, ecols) ==
    IF MatchesOf(row, right, ecols) = <<>>
    THEN << row @@ [n \in ecols |-> NaN] >>
    ELSE MatchesOf(row, right, ecols)

RECURSIVE MergeRows(_, _, _)
MergeRows(left, right, ecols) ==
    IF left = <<>> THEN <<>>
    ELSE MergeRow(Head(left), right, ecols) \o MergeRows(Tail(left), right, ecols)

\* df.merge(gtex, left_on='SYMBOL', right_on='gene', how='left').drop(columns=['gene'])
LeftMerge(d, t) ==
    LET right == DropDuplicates(ExprSelect(t))
        ecols == Range(ExprCols(t)) \ {"gene"}
    IN  [cols |-> d.cols \o Tail(ExprCols(t)),
         rows |-> MergeRows(d.rows, right, ecols)]

\* the join block raises: read_csv fails, 'gene' is no column after the
\* renames (KeyError), or the frame has no SYMBOL column (KeyError)
JoinRaises(d, t) ==
    \/ ~t.readable
    \/ ~HasCol(t, "gene")
    \/ "SYMBOL" \notin Range(d.cols)

----------------------------------------------------------------------------
(* The clinical-significance index and the label column:                   *)
(* build_features.py:100-125, build_dataset.py:14-53, app.py:209-232       *)

\* the terms of a CLNSIG value: m.group(1).split(','); the values of the
\* model carry no "|", so a comma item is its single part
ClinTerms(line) ==
    LET v == line.info[InfoSearch(line.info, "CLNSIG")].val
    IN  [i \in 1..Len(v) |-> v[i][1]]

\* what the index loop of entry point e makes of one line of the source:
\*   "skip"  continue (comment, too few columns, no CLNSIG match, no label)
\*   "raise" an exception leaves the loop
\*   "rec"   an entry is written to the index
\* build_features unpacks five names from the split line (ValueError under
\* five columns) and indexes column 8 (IndexError under eight); the two
\* other entry points test len(parts) < 8 first.
ClinOutcome(e, line) ==
    IF line.hash THEN "skip"
    ELSE IF line.ncols < 8 THEN (IF e = "features" THEN "raise" ELSE "skip")
    ELSE IF InfoSearch(line.info, "CLNSIG") = 0 THEN "skip"
    ELSE IF ResolveLabel(ClinTerms(line)) = NoLabel THEN "skip"
    ELSE IF ~IsInt(line.pos) THEN "raise"
    ELSE "rec"

\* the key of the entry a line writes
ClinKey(line) == <<StripChr(line.chrom), IntOf(line.pos), line.ref, line.alt>>

\* the entry a line writes; line is its number in the file
ClinEntry(lines, i) ==
    [key |-> ClinKey(lines[i]), label |-> ResolveLabel(ClinTerms(lines[i])), line |-> i]

\* mutant: an entry once written is never replaced
IndexGet_FirstWins(index, key) ==
    LET hits == { i \in 1..Len(index) : index[i].key = key }
    IN  IF hits = {} THEN NoLabel ELSE index[MinOf(hits)].label

\* labels.get(key): the dict is the sequence of the entries written, a later
\* one replacing an earlier one with the same key
IndexGet(index, key) ==
    LET hits == { i \in 1..Len(index) : index[i].key = key }
    IN  IF hits = {} THEN NoLabel ELSE index[MaxOf(hits)].label

\* the index loop from line i on: the entries written, and whether it raised
RECURSIVE IndexFrom(_, _, _, _)
IndexFrom(e, lines, i, index) ==
    IF i > Len(lines) THEN [raised |-> FALSE, index |-> index]
    ELSE IF ClinOutcome(e, lines[i]) = "raise" THEN [raised |-> TRUE, index |-> index]
    ELSE IF ClinOutcome(e, lines[i]) = "rec"
         THEN IndexFrom(e, lines, i + 1, Append(index, ClinEntry(lines, i)))
         ELSE IndexFrom(e, lines, i + 1, index)

BuildIndex(e, lines) == IndexFrom(e, lines, 1, <<>>)

Digits == {"0", "1", "2", "3", "4", "5", "6", "7", "8", "9"}

IsDigits(c) == c # <<>> /\ \A i \in 1..Len(c) : c[i] \in Digits

\* str(int(text)) for a text of digits: leading zeros are lost
IntText(c) == IF LStrip(c, {"0"}) = <<>> THEN <<"0">> ELSE LStrip(c, {"0"})

\* the chrom cell of a row as the label lookup sees it, str(ch).  In
\* build_features and the app the frame is the one built in memory.
\* build_dataset reads the table back with pd.read_csv, which makes a column
\* of digit texts an integer column.
LookupChrom(e, rows, i) ==
    IF e = "dataset" /\ \A j \in 1..Len(rows) : IsDigits(rows[j]["chrom"])
    THEN IntText(rows[i]["chrom"])
    ELSE rows[i]["chrom"]

\* the label column: labels.get((str(ch), int(p), r, a)) for each row
LabelColumn(e, index, rows) ==
    [i \in 1..Len(rows) |->
        IndexGet(index, <<LookupChrom(e, rows, i), rows[i]["pos"], rows[i]["ref"],
                          rows[i]["alt"]>>)]

\* df['label'] = [...]
WithLabels(e, index, d) ==
    [cols |-> d.cols \o <<"label">>,
     rows |-> [i \in 1..Len(d.rows) |->
                 d.rows[i] @@ [c \in {"label"} |-> LabelColumn(e, index, d.rows)[i]]]]

----------------------------------------------------------------------------
(* The matrix build: app.py:_predict_on_df (237-249), the lookup flow      *)
(* (app.py:303-309), train_xgb.py:prep (28-38), train_baseline.py (23-30)  *)

\* the categorical effect-prediction columns
CatCols == {"SIFT_pred", "Polyphen2_HVAR_pred", "Polyphen2_HDIV_pred"}

\* the candidate columns of the model input, in order
MatrixCols ==
    <<"gnomADg_AF", "heart_lv_tpm", "heart_aa_tpm", "GERP++_RS",
      "phyloP100way_vertebrate", "SIFT_pred", "Polyphen2_HVAR_pred",
      "Polyphen2_HDIV_pred">>

\* mutant: the lookup is made on the upper-cased value
MapCat_CaseFold(v) ==
    CASE v \in {"D", "P", "A", "d"} -> "1.0"
      [] v \in {"T", "B", "N"} -> "0.0"
      [] OTHER -> NaN

\* Series.map(mapping) on one cell: a value that is no key gives NaN.
\* Numbers of a frame are modelled by their texts: "1.0" is 1, "0.0" is 0.
MapCat(v) ==
    CASE v \in {"D", "P", "A"} -> "1.0"
      [] v \in {"T", "B", "N"} -> "0.0"
      [] OTHER -> NaN

\* fillna(z) on one cell
FillNa(v, z) == IF v \in {NaN, None} THEN z ELSE v

\* df[c] = df[c].map(mapping).fillna(0) for the categorical columns
EncodeCats(d) ==
    [cols |-> d.cols,
     rows |-> [i \in 1..Len(d.rows) |->
                 [c \in DOMAIN d.rows[i] |->
                    IF c \in CatCols THEN FillNa(MapCat(d.rows[i][c]), "0.0")
                    ELSE d.rows[i][c]]]]

InCols(d, c) == c \in Range(d.cols)

\* cols = [c for c in [...] if c in df.columns]
UsedCols(d) == SelectSeq(MatrixCols, LAMBDA c : InCols(d, c))

\* X = df[cols].fillna(0.0).values on the encoded frame
Matrix(d) ==
    [i \in 1..Len(d.rows) |->
        [c \in Range(UsedCols(d)) |-> FillNa(EncodeCats(d).rows[i][c], "0.0")]]

\* the value model.predict_proba gives a row (the model is not part of this)
Proba == "<proba>"

\* the frame _predict_on_df returns: the categorical columns encoded in
\* place, prob_pathogenic added
Scored(d) ==
    [cols |-> d.cols \o <<"prob_pathogenic">>,
     rows |-> [i \in 1..Len(d.rows) |->
                 EncodeCats(d).rows[i] @@
                 [c \in {"prob_pathogenic"} |->
                    IF UsedCols(d) = <<>> THEN NaN ELSE Proba]]]

----------------------------------------------------------------------------
(* The feature builder as a process *)

\* a clinical-significance source that is not there
NoClin == [exists |-> FALSE, lines |-> <<>>]

ClinFile(lines) == [exists |-> TRUE, lines |-> lines]

\* the clinical-significance sources given to the feature builder: none, one
\* of well-formed lines, one that starts with a line of five columns
FeatClinFiles ==
    { NoClin,
      ClinFile(<< FLine(8, <<"c", "h", "r", "1">>, "100", "A", "G", "cv1",
                        << Entry("CLNSIG", << <<"Pathogenic">> >>) >>),
                  FLine(8, <<"2">>, "200", "C", "G", "cv2",
                        << Entry("CLNSIG", << <<"Benign">> >>) >>) >>),
      ClinFile(<< FLine(5, <<"1">>, "100", "A", "G", "cv3", <<>>),
                  FLine(8, <<"1">>, "100", "A", "G", "cv1",
                        << Entry("CLNSIG", << <<"Pathogenic">> >>) >>) >>) }

\* the entry point of the index loop the builder runs
FeatEntry == IF fentry = "script" THEN "features" ELSE "app"

\* a message of the run: its text and the number it carries
Msg(t, n) == [text |-> t, n |-> n]

IdleFeat ==
    /\ fentry = "idle"
    /\ fhdr = <<>>
    /\ fdata = <<>>
    /\ gtex = NoTable
    /\ fpc = "idle"
    /\ ffields = <<>>
    /\ fi = 0
    /\ records = <<>>
    /\ df = [cols |-> <<>>, rows |-> <<>>]
    /\ fclin = NoClin
    /\ fX = <<>>
    /\ flog = <<>>

StartFeat ==
    /\ fentry \in {"script", "app"}
    /\ fhdr \in FeatHeaders
    /\ fdata \in BoundedSeq(FeatLines, MaxFeatLines)
    /\ gtex \in ExprFiles
    /\ fclin \in FeatClinFiles
    /\ fpc = "start"
    /\ ffields = <<>>
    /\ fi = 0
    /\ records = <<>>
    /\ df = [cols |-> <<>>, rows |-> <<>>]
    /\ fX = <<>>
    /\ flog = <<>>

\* csq_fields = parse_csq_header(vcf_path)
FParseHeader ==
    /\ fpc = "start"
    /\ ffields' = parse_csq_header(fhdr)
    /\ fi' = 1
    /\ fpc' = "lines"
    /\ UNCHANGED <<fentry, fhdr, fdata, gtex, fclin, fX, flog, records, df>>
    /\ UNCHANGED notFeat

\* a data line the loop passes over
FSkipLine ==
    /\ fpc = "lines" /\ fi <= Len(fdata)
    /\ LineOutcome(fdata[fi], ffields) = "skip"
    /\ fi' = fi + 1
    /\ UNCHANGED <<fentry, fhdr, fdata, gtex, fclin, fX, flog, fpc, ffields, records, df>>
    /\ UNCHANGED notFeat

\* records.append(rec)
FAppendRecord ==
    /\ fpc = "lines" /\ fi <= Len(fdata)
    /\ LineOutcome(fdata[fi], ffields) = "rec"
    /\ records' = Append(records, LineRecord(fdata[fi], ffields))
    /\ fi' = fi + 1
    /\ UNCHANGED <<fentry, fhdr, fdata, gtex, fclin, fX, flog, fpc, ffields, df>>
    /\ UNCHANGED notFeat

\* int(pos) raises ValueError: uncaught in both entry points
FBadPos ==
    /\ fpc = "lines" /\ fi <= Len(fdata)
    /\ LineOutcome(fdata[fi], ffields) = "raise"
    /\ fpc' = "crash"
    /\ UNCHANGED <<fentry, fhdr, fdata, gtex, fclin, fX, flog, ffields, fi, records, df>>
    /\ UNCHANGED notFeat

\* df = pd.DataFrame.from_records(records) and the numeric coercions
FMakeDf ==
    /\ fpc = "lines" /\ fi > Len(fdata)
    /\ df' = MakeDf(records)
    /\ fpc' = "df"
    /\ UNCHANGED <<fentry, fhdr, fdata, gtex, fclin, fX, flog, ffields, fi, records>>
    /\ UNCHANGED notFeat

\* app only: if df.empty: return df
FAppReturnEmpty ==
    /\ fpc = "df" /\ fentry = "app"
    /\ df.rows = <<>>
    /\ fpc' = "returned"
    /\ UNCHANGED <<fentry, fhdr, fdata, gtex, fclin, fX, flog, ffields, fi, records, df>>
    /\ UNCHANGED notFeat

\* the join block runs through; control reaches the label block
FJoin ==
    /\ fpc = "df"
    /\ fentry = "app" => df.rows # <<>>
    /\ ~JoinRaises(df, gtex)
    /\ df' = LeftMerge(df, gtex)
    /\ fpc' = "labels"
    /\ UNCHANGED <<fentry, fhdr, fdata, gtex, fclin, fX, flog, ffields, fi, records>>
    /\ UNCHANGED notFeat

\* script: the join block raises, nothing catches it
FJoinRaisesScript ==
    /\ fpc = "df" /\ fentry = "script"
    /\ JoinRaises(df, gtex)
    /\ fpc' = "crash"
    /\ UNCHANGED <<fentry, fhdr, fdata, gtex, fclin, fX, flog, ffields, fi, records, df>>
    /\ UNCHANGED notFeat

\* app: except Exception: pass; df is left as it was
FJoinRaisesApp ==
    /\ fpc = "df" /\ fentry = "app"
    /\ df.rows # <<>>
    /\ JoinRaises(df, gtex)
    /\ fpc' = "labels"
    /\ UNCHANGED <<fentry, fhdr, fdata, gtex, fclin, fX, flog, ffields, fi, records, df>>
    /\ UNCHANGED notFeat

\* the label block runs through: the index is built and df['label'] assigned;
\* the app's builder then returns df
FLabel ==
    /\ fpc = "labels"
    /\ fclin.exists
    /\ ~BuildIndex(FeatEntry, fclin.lines).raised
    /\ df' = WithLabels(FeatEntry, BuildIndex(FeatEntry, fclin.lines).index, df)
    /\ fpc' = IF fentry = "app" THEN "returned" ELSE "labelled"
    /\ UNCHANGED <<fentry, fhdr, fdata, gtex, fclin, fX, flog, ffields, fi, records>>
    /\ UNCHANGED notFeat

\* app only: clinvar_vcf is None or does not exist, the block is skipped
FAppNoLabels ==
    /\ fpc = "labels" /\ fentry = "app"
    /\ ~fclin.exists
    /\ fpc' = "returned"
    /\ UNCHANGED <<fentry, fhdr, fdata, gtex, fclin, fX, flog, ffields, fi, records, df>>
    /\ UNCHANGED notFeat

\* the label block raises (script: the source cannot be opened; both: a line
\* of the source makes the index loop raise); nothing catches it
FLabelRaises ==
    /\ fpc = "labels"
    /\ \/ fentry = "script" /\ ~fclin.exists
       \/ fclin.exists /\ BuildIndex(FeatEntry, fclin.lines).raised
    /\ fpc' = "crash"
    /\ UNCHANGED <<fentry, fhdr, fdata, gtex, fclin, fX, flog, ffields, fi, records, df>>
    /\ UNCHANGED notFeat

\* script: df.to_csv(out_csv) and the closing print
FWrite ==
    /\ fpc = "labelled" /\ fentry = "script"
    /\ flog' = Append(flog, Msg("Wrote features", Len(df.rows)))
    /\ fpc' = "written"
    /\ UNCHANGED <<fentry, fhdr, fdata, gtex, fclin, fX, ffields, fi, records, df>>
    /\ UNCHANGED notFeat

\* app, _process_vcf: if df.empty: st.error(...); st.stop()
FAppStopEmpty ==
    /\ fpc = "returned"
    /\ df.rows = <<>>
    /\ flog' = Append(flog, Msg("No variants with usable annotations", 0))
    /\ fpc' = "stopped"
    /\ UNCHANGED <<fentry, fhdr, fdata, gtex, fclin, fX, ffields, fi, records, df>>
    /\ UNCHANGED notFeat

\* app, _process_vcf: st.write("Feature rows: ...") and _predict_on_df
FPredict ==
    /\ fpc = "returned"
    /\ df.rows # <<>>
    /\ flog' = Append(flog, Msg("Feature rows", Len(df.rows)))
    /\ fX' = Matrix(df)
    /\ df' = Scored(df)
    /\ fpc' = "scored"
    /\ UNCHANGED <<fentry, fhdr, fdata, gtex, fclin, ffields, fi, records>>
    /\ UNCHANGED notFeat

NextFeat ==
    \/ FParseHeader
    \/ FSkipLine
    \/ FAppendRecord
    \/ FBadPos
    \/ FMakeDf
    \/ FAppReturnEmpty
    \/ FJoin
    \/ FJoinRaisesScript
    \/ FJoinRaisesApp
    \/ FLabel
    \/ FAppNoLabels
    \/ FLabelRaises
    \/ FWrite
    \/ FAppStopEmpty
    \/ FPredict

----------------------------------------------------------------------------
(* Label assignment as a process: the index loop line by line, then the    *)
(* label column                                                            *)

\* the lines a clinical-significance source is made of
ClinLines ==
    { FLine(8, <<"c", "h", "r", "1">>, "100", "A", "G", "cv1",
            << Entry("CLNSIG", << <<"Pathogenic">> >>) >>),
      FLine(8, <<"1">>, "100", "A", "T", "cv2",
            << Entry("CLNSIG", << <<"Benign">> >>) >>),
      FLine(8, <<"0", "1">>, "100", "A", "G", "cv3",
            << Entry("CLNSIG", << <<"Benign">> >>) >>),
      FLine(8, <<"h", "s", "1">>, "100", "A", "G", "cv4",
            << Entry("CLNSIG", << <<"Likely_benign">> >>) >>),
      FLine(4, <<"1">>, "100", "A", "G", "cv5", <<>>),
      FLine(8, <<"1">>, "100", "A", "G", "cv6",
            << Entry("AF", << <<"0.1">> >>) >>),
      FLine(8, <<"1">>, "100", "A", "G", "cv7",
            << Entry("CLNSIG", << <<"Uncertain_significance">> >>) >>),
      FLine(8, <<"1">>, "x", "A", "G", "cv8",
            << Entry("CLNSIG", << <<"Pathogenic">> >>) >>),
      FLine(8, <<"1">>, "100", "A", "G", "cv9",
            << Entry("ONC_CLNSIG", << <<"Benign">> >>),
               Entry("CLNSIG", << <<"Pathogenic">> >>) >>),
      FLine(8, <<"1">>, "100", "A", "G", "cv10",
            << Entry("CLNSIG", << <<"Benign">> >>) >>),
      FLine(8, <<"M", "T">>, "100", "A", "G", "cv11",
            << Entry("CLNSIG", << <<"Pathogenic">> >>) >>) }

\* the row the feature builder makes of a data line with these columns:
\* rec['chrom'] = chrom.lstrip('chr')
TableRow(c, p, r, a) ==
    [chrom |-> StripChr(c), pos |-> IntOf(p), ref |-> r, alt |-> a]

\* the rows of the feature tables of the model
LabelRows ==
    { TableRow(<<"1">>, "100", "A", "G"),
      TableRow(<<"c", "h", "r", "0", "1">>, "100", "A", "G"),
      TableRow(<<"h", "s", "1">>, "100", "A", "G") }

IdleLab ==
    /\ lentry = "idle"
    /\ lclin = <<>>
    /\ ltable = <<>>
    /\ lpc = "idle"
    /\ li = 0
    /\ lindex = <<>>
    /\ lcol = <<>>

StartLab ==
    /\ lentry \in {"features", "dataset", "app"}
    /\ lclin \in BoundedSeq(ClinLines, MaxClinLines)
    /\ ltable \in BoundedSeq(LabelRows, MaxLabelRows)
    /\ lpc = "index"
    /\ li = 1
    /\ lindex = <<>>
    /\ lcol = <<>>

\* the index loop passes over a line
LSkipLine ==
    /\ lpc = "index" /\ li <= Len(lclin)
    /\ ClinOutcome(lentry, lclin[li]) = "skip"
    /\ li' = li + 1
    /\ UNCHANGED <<lentry, lclin, ltable, lpc, lindex, lcol>>
    /\ UNCHANGED notLab

\* labels[(chrom.lstrip('chr'), int(pos), ref, alt)] = label
LRecord ==
    /\ lpc = "index" /\ li <= Len(lclin)
    /\ ClinOutcome(lentry, lclin[li]) = "rec"
    /\ lindex' = Append(lindex, ClinEntry(lclin, li))
    /\ li' = li + 1
    /\ UNCHANGED <<lentry, lclin, ltable, lpc, lcol>>
    /\ UNCHANGED notLab

\* a line makes the loop raise; no entry point catches it
LRaise ==
    /\ lpc = "index" /\ li <= Len(lclin)
    /\ ClinOutcome(lentry, lclin[li]) = "raise"
    /\ lpc' = "crash"
    /\ UNCHANGED <<lentry, lclin, ltable, li, lindex, lcol>>
    /\ UNCHANGED notLab

\* df['label'] = [labels.get(...) for each row]
LAssign ==
    /\ lpc = "index" /\ li > Len(lclin)
    /\ lcol' = LabelColumn(lentry, lindex, ltable)
    /\ lpc' = "done"
    /\ UNCHANGED <<lentry, lclin, ltable, li, lindex>>
    /\ UNCHANGED notLab

NextLab ==
    \/ LSkipLine
    \/ LRecord
    \/ LRaise
    \/ LAssign

----------------------------------------------------------------------------
(* Scoring and evidence: app.py:_predict_on_df, _evidence_bullets, the     *)
(* lookup flow, and the matrix build of the training scripts               *)

\* float(text) for the number texts of the model, in millionths
FloatTexts ==
    {"0.0", "1e-06", "1e-05", "0.0005", "0.001", "0.005", "0.01", "0.5", "1.0", "3.0"}

Millionths(t) ==
    CASE t = "0.0" -> 0
      [] t = "1e-06" -> 1
      [] t = "1e-05" -> 10
      [] t = "0.0005" -> 500
      [] t = "0.001" -> 1000
      [] t = "0.005" -> 5000
      [] t = "0.01" -> 10000
      [] t = "0.5" -> 500000
      [] t = "1.0" -> 1000000
      [] t = "3.0" -> 3000000

\* the thresholds of the evidence code, in millionths: 1e-5, 0.001, 0.01, 2
UltraRareAF == 10
VeryLowAF == 1000
LowAF == 10000
HighScore == 2000000

\* float(v or 0.0): None and 0.0 are falsy and give 0.0; NaN is truthy and
\* stays NaN
OrZero(v) == IF v = None THEN "0.0" ELSE v

\* str(v).upper() on the cell values of the model
StrUpper(v) ==
    CASE v = "d" -> "D"
      [] v = None -> "NONE"
      [] v = NaN -> "NAN"
      [] OTHER -> v

\* the allele-frequency bullet of _evidence_bullets; comparisons with NaN
\* are false
AfBullet(v) ==
    LET af == OrZero(v)
    IN  IF af \notin FloatTexts THEN <<>>
        ELSE IF Millionths(af) = 0 \/ Millionths(af) < UltraRareAF
             THEN <<"PM2_supporting: absent/ultra-rare in gnomAD">>
        ELSE IF Millionths(af) < VeryLowAF THEN <<"PM2_moderate: very low population AF">>
        ELSE IF Millionths(af) < LowAF THEN <<"BS1_supporting: low AF">>
        ELSE <<>>

\* float(v or 0.0) > 2
IsHigh(v) == OrZero(v) \in FloatTexts /\ Millionths(OrZero(v)) > HighScore

\* _evidence_bullets(row)
EvidenceBullets(row) ==
    AfBullet(row["gnomADg_AF"])
    \o (IF IsHigh(row["phyloP100way_vertebrate"])
        THEN <<"Conserved site (phyloP high)">> ELSE <<>>)
    \o (IF IsHigh(row["GERP++_RS"]) THEN <<"Constraint (GERP++ high)">> ELSE <<>>)
    \o (IF StrUpper(row["SIFT_pred"]) = "D" THEN <<"PP3: SIFT damaging">> ELSE <<>>)
    \o (IF StrUpper(row["Polyphen2_HVAR_pred"]) \in {"D", "P"}
        THEN <<"PP3: PolyPhen HVAR possibly/probably damaging">> ELSE <<>>)
    \o (IF row["IMPACT"] \in {"HIGH"}
        THEN <<"PVS1_suggestive: high-impact consequence">> ELSE <<>>)

\* the evidence text of the lookup flow (app.py:336-354), on the first row
\* of its frame
LookupEvidence(row) ==
    (LET af == OrZero(row["gnomADg_AF"])
     IN  IF af \notin FloatTexts THEN <<>>
         ELSE IF Millionths(af) < VeryLowAF THEN <<"Very low population AF">>
         ELSE IF Millionths(af) < LowAF THEN <<"Low population AF">>
         ELSE <<>>)
    \o (IF IsHigh(row["phyloP100way_vertebrate"])
        THEN <<"High phyloP conservation">> ELSE <<>>)
    \o (IF IsHigh(row["GERP++_RS"]) THEN <<"High GERP++ constraint">> ELSE <<>>)
    \o (IF row["SIFT_pred"] \in {"D"} THEN <<"SIFT damaging">> ELSE <<>>)
    \o (IF row["Polyphen2_HVAR_pred"] \in {"D", "P"}
        THEN <<"PolyPhen (HVAR) possibly/probably damaging">> ELSE <<>>)

\* no evidence was emitted
NoEvidence == <<"<no evidence emitted>">>

\* the columns of the one-row frames of the model
PredCols ==
    <<"gnomADg_AF", "heart_lv_tpm", "GERP++_RS", "phyloP100way_vertebrate", "SIFT_pred",
      "Polyphen2_HVAR_pred", "Polyphen2_HDIV_pred", "IMPACT">>

PredRow(af, lv, g, p, sift, hvar, hdiv, imp) ==
    [c \in Range(PredCols) |->
        CASE c = "gnomADg_AF" -> af
          [] c = "heart_lv_tpm" -> lv
          [] c = "GERP++_RS" -> g
          [] c = "phyloP100way_vertebrate" -> p
          [] c = "SIFT_pred" -> sift
          [] c = "Polyphen2_HVAR_pred" -> hvar
          [] c = "Polyphen2_HDIV_pred" -> hdiv
          [] c = "IMPACT" -> imp]

\* the rows of the model: every allele-frequency tier and both sides of
\* each threshold, the six keys of the lookup and values outside it
PredRows ==
    { PredRow(af, o[1], o[2], o[3], sift, hvar, hdiv, o[4]) :
        af \in {NaN, "0.0", "1e-06", "1e-05", "0.0005", "0.001", "0.005", "0.01", "0.5"},
        o \in { <<NaN, NaN, "3.0", "HIGH">>, <<"1.0", "3.0", NaN, "MODERATE">> },
        sift \in {"D", "T", "A", "N", "d", NaN},
        hvar \in {"D", "P", "B", ".", None},
        hdiv \in {"P", "", "D;T"} }

FrameOf(row) == [cols |-> PredCols, rows |-> <<row>>]

IdlePred ==
    /\ pflow = "idle"
    /\ pshap = FALSE
    /\ prow = PredRow(NaN, NaN, NaN, NaN, NaN, NaN, NaN, NaN)
    /\ ppc = "idle"
    /\ pdf = [cols |-> <<>>, rows |-> <<>>]
    /\ pX = <<>>
    /\ pev = <<>>
    /\ pcaller = [cols |-> <<>>, rows |-> <<>>]

StartPred ==
    /\ pflow \in {"upload", "lookup", "xgb", "baseline"}
    /\ pshap \in (IF pflow = "lookup" THEN BOOLEAN ELSE {FALSE})
    /\ prow \in PredRows
    /\ ppc = "start"
    /\ pdf = [cols |-> <<>>, rows |-> <<>>]
    /\ pX = <<>>
    /\ pev = <<>>
    /\ pcaller = FrameOf(prow)

\* upload flow: the caller's df is the parameter df of _predict_on_df, whose
\* column assignments come before df.copy() and so write to the caller's
\* table.
\* pred_df, proba, used_cols = _predict_on_df(df, model, feats)
PPredict ==
    /\ ppc = "start" /\ pflow = "upload"
    /\ pcaller' = EncodeCats(pcaller)
    /\ pdf' = Scored(pcaller)
    /\ pX' = Matrix(pcaller)
    /\ ppc' = "scored"
    /\ UNCHANGED <<pflow, pshap, prow, pev>>
    /\ UNCHANGED notPred

\* lookup flow: df = q.copy(), then the encoding, X and proba of
\* app.py:303-310
PLookupScore ==
    /\ ppc = "start" /\ pflow = "lookup"
    /\ pdf' = EncodeCats(pcaller)
    /\ pX' = Matrix(pcaller)
    /\ ppc' = "scored"
    /\ UNCHANGED <<pflow, pshap, prow, pev, pcaller>>
    /\ UNCHANGED notPred

\* training scripts: train_xgb.prep works on df.copy(); train_baseline.main
\* runs the same lines on the frame it read from the stored table itself
PPrep ==
    /\ ppc = "start" /\ pflow \in {"xgb", "baseline"}
    /\ pdf' = EncodeCats(pcaller)
    /\ pX' = Matrix(pcaller)
    /\ ppc' = "done"
    /\ UNCHANGED <<pflow, pshap, prow, pev, pcaller>>
    /\ UNCHANGED notPred

\* upload flow: pred_df['evidence'] = pred_df.apply(_evidence_bullets, axis=1)
PEvidenceUpload ==
    /\ ppc = "scored" /\ pflow = "upload"
    /\ pev' = EvidenceBullets(pdf.rows[1])
    /\ ppc' = "done"
    /\ UNCHANGED <<pflow, pshap, prow, pdf, pX, pcaller>>
    /\ UNCHANGED notPred

\* lookup flow: the evidence text, built inside the try block of the SHAP
\* explanation from the frame encoded above
PEvidenceLookup ==
    /\ ppc = "scored" /\ pflow = "lookup"
    /\ pshap
    /\ pev' = LookupEvidence(pdf.rows[1])
    /\ ppc' = "done"
    /\ UNCHANGED <<pflow, pshap, prow, pdf, pX, pcaller>>
    /\ UNCHANGED notPred

\* lookup flow: the SHAP explanation raises, the except branch shows a
\* note and no evidence text is built
PNoShap ==
    /\ ppc = "scored" /\ pflow = "lookup"
    /\ ~pshap
    /\ pev' = NoEvidence
    /\ ppc' = "done"
    /\ UNCHANGED <<pflow, pshap, prow, pdf, pX, pcaller>>
    /\ UNCHANGED notPred

NextPred ==
    \/ PPredict
    \/ PLookupScore
    \/ PPrep
    \/ PEvidenceUpload
    \/ PEvidenceLookup
    \/ PNoShap

----------------------------------------------------------------------------
(* Specifications *)

\* the reference subset extractor
InitExt == StartExt /\ IdleSel /\ IdleRes /\ IdleFeat /\ IdleLab /\ IdlePred

SpecExtract == InitExt /\ [][NextExt]_vars

\* the canonical selection loop
InitSel == IdleExt /\ StartSel /\ IdleRes /\ IdleFeat /\ IdleLab /\ IdlePred

SpecSelect == InitSel /\ [][NextSel]_vars

\* label resolution
InitRes == IdleExt /\ IdleSel /\ StartRes /\ IdleFeat /\ IdleLab /\ IdlePred

SpecResolve == InitRes /\ [][NextRes]_vars

\* the feature builder, and for the app the prediction step that follows it
InitFeat == IdleExt /\ IdleSel /\ IdleRes /\ StartFeat /\ IdleLab /\ IdlePred

SpecFeatures == InitFeat /\ [][NextFeat]_vars

\* label assignment
InitLab == IdleExt /\ IdleSel /\ IdleRes /\ IdleFeat /\ StartLab /\ IdlePred

SpecLabel == InitLab /\ [][NextLab]_vars

\* scoring and evidence
InitPred == IdleExt /\ IdleSel /\ IdleRes /\ IdleFeat /\ IdleLab /\ StartPred

SpecPredict == InitPred /\ [][NextPred]_vars

----------------------------------------------------------------------------
(* Properties of canonical selection *)

\* the sub-blocks the loop retains: as many values as field names
Retained == { i \in 1..Len(csq_blocks) : Len(csq_blocks[i]) = Len(csq_fields) }

\* the retained sub-blocks whose CANONICAL value is exactly "YES"
Canonical ==
    { i \in Retained :
        \E j \in 1..Len(csq_fields) :
            csq_fields[j] = "CANONICAL" /\ csq_blocks[i][j] = "YES" }

\* sub-block i as an annotation record: field name -> value at its position
RecordOf(i) ==
    [k \in Range(csq_fields) |->
        csq_blocks[i][CHOOSE j \in 1..Len(csq_fields) : csq_fields[j] = k]]

SelFinished == sel_pc \in {"end", "dropped", "emitted"}

\* C1: when the loop over a data line's sub-blocks ends, the selected record
\* is the first retained sub-block whose CANONICAL value is "YES", whatever
\* its position; without a canonical one it is the first retained sub-block;
\* without a retained one nothing is selected.
C1_CanonicalSelection ==
    SelFinished =>
        /\ Canonical # {} => (best.some /\ best.row = RecordOf(MinOf(Canonical)))
        /\ (Canonical = {} /\ Retained # {}) =>
              (best.some /\ best.row = RecordOf(MinOf(Retained)))
        /\ Retained = {} => ~best.some
        /\ sel_pc = "emitted" =>
              \A k \in Range(want) \cap Range(csq_fields) : rec[k] = best.row[k]

\* C1 witness: a canonical sub-block was selected although a retained
\* non-canonical sub-block precedes it
C1_Witness ==
    /\ sel_pc = "emitted"
    /\ Canonical # {}
    /\ MinOf(Retained) < MinOf(Canonical)
    /\ best.row = RecordOf(MinOf(Canonical))

----------------------------------------------------------------------------
(* Properties of the feature builder *)

\* the header line that starts with #CHROM, where the header parse stops
ChromAt ==
    IF \E i \in 1..Len(fhdr) : fhdr[i].kind = "chrom"
    THEN MinOf({ i \in 1..Len(fhdr) : fhdr[i].kind = "chrom" })
    ELSE Len(fhdr) + 1

\* the field list the header declares: the last declaration before #CHROM
DeclaredFields ==
    LET decls == { i \in 1..Len(fhdr) :
                     i < ChromAt /\ fhdr[i].kind = "csq" /\ fhdr[i].format }
    IN  IF decls = {} THEN <<>> ELSE fhdr[MaxOf(decls)].fields

\* data line l retains an annotation record: it has 8 columns and its
\* annotation payload holds a sub-block with as many values as declared fields
RetainsRecord(l) ==
    /\ ~l.hash
    /\ l.ncols >= 8
    /\ InfoSearch(l.info, "CSQ") # 0
    /\ \E b \in Range(l.info[InfoSearch(l.info, "CSQ")].val) :
          Len(b) = Len(DeclaredFields)

\* the data lines among the first n that retain a record
KeptLines(n) == { i \in 1..n : RetainsRecord(fdata[i]) }

\* the k-th element of a set of numbers
Nth(S, k) == CHOOSE i \in S : Cardinality({ j \in S : j <= i }) = k

\* row r is the row of data line l
RowOfLine(r, l) ==
    /\ r["id"] = l.id
    /\ r["pos"] = IntOf(l.pos)
    /\ r["ref"] = l.ref
    /\ r["alt"] = l.alt

\* rows, in order, are the rows of the lines of K
RowsMatch(rows, K) ==
    /\ Len(rows) = Cardinality(K)
    /\ \A k \in 1..Len(rows) : RowOfLine(rows[k], fdata[Nth(K, k)])

TableBuilt == fpc \in {"df", "labels", "returned"}

\* C3: the feature table holds one row, in file order, for each data line
\* that retained an annotation record and none for the other data lines;
\* while the lines are read the record list is that for the lines read.
C3_OneRowPerRetainedLine ==
    /\ fpc = "lines" => RowsMatch(records, KeptLines(fi - 1))
    /\ TableBuilt => RowsMatch(df.rows, KeptLines(Len(fdata)))

\* C3 witness: a table with a row although one data line with an annotation
\* payload had every sub-block discarded
C3_Witness ==
    /\ fpc = "labels"
    /\ df.rows # <<>>
    /\ \E i \in 1..Len(fdata) :
         /\ InfoSearch(fdata[i].info, "CSQ") # 0
         /\ ~RetainsRecord(fdata[i])

\* the expression table can be joined: readable, with a gene-symbol column
Joinable == gtex.readable /\ HasCol(gtex, "gene")

\* C4: when no header line declares the field list, the field list stays
\* empty, no record is built and the entry point finishes without raising
\* (here: with an expression table that can be joined).
C4_NoSchemaFinishes ==
    (DeclaredFields = <<>> /\ fpc # "start") =>
        /\ ffields = <<>>
        /\ records = <<>>
        /\ df.rows = <<>>
        /\ Joinable => fpc # "crash"

\* the gene symbol of row i of the expression table
GeneOf(i) == gtex.rows[i][SourceCol(gtex, "gene")]

\* C10: after the expression join the variant rows are the rows before it,
\* same number and same order, whatever gene symbols the expression table
\* repeats; a matched row carries the values of the first table row of its
\* gene symbol.
C10_JoinPreservesRows ==
    fpc = "labels" =>
        /\ Len(df.rows) = Len(records)
        /\ \A k \in 1..Len(records) :
             \A c \in {"chrom", "pos", "ref", "alt", "id", "SYMBOL"} :
                 df.rows[k][c] = records[k][c]
        /\ "heart_lv_tpm" \in Range(df.cols) =>
             \A k \in 1..Len(records) :
                 LET m == { i \in 1..Len(gtex.rows) : GeneOf(i) = records[k]["SYMBOL"] }
                 IN  m # {} =>
                       df.rows[k]["heart_lv_tpm"] =
                           gtex.rows[MinOf(m)][SourceCol(gtex, "heart_lv_tpm")]

\* C10 witness: a join against a table that repeats the gene symbol of a row
C10_Witness ==
    /\ fpc = "labels"
    /\ "heart_lv_tpm" \in Range(df.cols)
    /\ \E k \in 1..Len(records) : \E i, j \in 1..Len(gtex.rows) :
         i < j /\ GeneOf(i) = records[k]["SYMBOL"] /\ GeneOf(j) = records[k]["SYMBOL"]

\* the expression columns of the joined table
HeartCols == {"heart_lv_tpm", "heart_aa_tpm"}

\* row k's gene symbol has no row in the expression table
Unmatched(k) == \A i \in 1..Len(gtex.rows) : GeneOf(i) # df.rows[k]["SYMBOL"]

\* C11: from the join on (label resolution, the written or returned table,
\* the scored table) a row whose gene symbol has no row in the expression
\* table has absent expression values, never zeros; no model input exists
\* before the prediction step, and there the same cells are exactly 0.0.
C11_AbsentUntilMatrix ==
    /\ fpc # "scored" => fX = <<>>
    /\ \A c \in HeartCols : InCols(df, c) =>
         \A k \in 1..Len(df.rows) : Unmatched(k) =>
             /\ df.rows[k][c] = NaN
             /\ fpc = "scored" => fX[k][c] = "0.0"

\* C11 witness: a scored table, labels resolved, with a row whose gene
\* symbol is not in the expression table next to a row whose symbol is
C11_Witness ==
    /\ fpc = "scored"
    /\ InCols(df, "heart_lv_tpm") /\ InCols(df, "label")
    /\ \E j, k \in 1..Len(df.rows) :
         /\ Unmatched(k) /\ fX[k]["heart_lv_tpm"] = "0.0"
         /\ ~Unmatched(j) /\ fX[j]["heart_lv_tpm"] # "0.0"

\* C12: a failing expression join (table unreadable or without a gene-symbol
\* column) does not abort the builder: once the data lines are read and gave
\* records, the run does not end in an exception.
C12_JoinFailureDegrades ==
    (~Joinable /\ fi > Len(fdata) /\ records # <<>>) => fpc # "crash"

\* the VariantKey of row k of the table
KeyOfRow(k) == <<df.rows[k]["chrom"], df.rows[k]["pos"], df.rows[k]["ref"], df.rows[k]["alt"]>>

\* C14: no two rows of the feature table carry the same VariantKey.
C14_OneRowPerKey ==
    TableBuilt => \A j, k \in 1..Len(df.rows) : j # k => KeyOfRow(j) # KeyOfRow(k)

\* the data lines that gave no row: too few columns, no annotation entry,
\* or every sub-block discarded
SkippedLines == { i \in 1..Len(fdata) : ~RetainsRecord(fdata[i]) }

\* the messages of the builder that carry the number of rows
RowCountTexts == {"Wrote features", "Feature rows", "No variants with usable annotations"}

\* the run is over and gave feature rows
RunEnded == fpc \in {"written", "scored"}

\* C19: at the end of a run that skipped a unit, the run has reported the
\* skipped units: its messages hold one other than the row-count messages.
C19_SkipsReported ==
    (RunEnded /\ SkippedLines # {}) =>
        \E i \in 1..Len(flog) : flog[i].text \notin RowCountTexts

----------------------------------------------------------------------------
(* Properties of label resolution *)

ResFinished == res_pc \in {"recorded", "unlabeled"}

PathogenicLike == "Pathogenic" \in sigs \/ "Likely_pathogenic" \in sigs

BenignLike == "Benign" \in sigs \/ "Likely_benign" \in sigs

\* C2: the label is 1 if the term set holds "Pathogenic" or
\* "Likely_pathogenic", else 0 if it holds "Benign" or "Likely_benign", else
\* nothing is recorded; the order of the terms does not matter.
C2_LabelPrecedence ==
    ResFinished =>
        /\ PathogenicLike => (res_pc = "recorded" /\ label = 1)
        /\ (~PathogenicLike /\ BenignLike) => (res_pc = "recorded" /\ label = 0)
        /\ (~PathogenicLike /\ ~BenignLike) => (res_pc = "unlabeled" /\ label = NoLabel)
        /\ clnsig \in {<<"Pathogenic", "Benign">>, <<"Benign", "Pathogenic">>} => label = 1
        /\ clnsig = <<"Likely_benign">> => label = 0
        /\ clnsig = <<"Uncertain_significance">> => res_pc = "unlabeled"

\* C2 witness: a benign term followed by a pathogenic one resolved to 1
C2_Witness ==
    /\ res_pc = "recorded"
    /\ clnsig = <<"Benign", "Pathogenic">>
    /\ label = 1

----------------------------------------------------------------------------
(* Properties of label assignment *)

\* the only anomaly of the source is lines with too few columns
OnlyShortLines == \A i \in 1..Len(lclin) : lclin[i].ncols >= 8 => IsInt(lclin[i].pos)

\* C13: a line of the clinical-significance source with too few columns is
\* skipped and never makes the run fail, in each of the three entry points.
C13_MalformedLineSkipped == OnlyShortLines => lpc # "crash"

\* the VariantKey of row k of the feature table
TableKey(k) == <<ltable[k].chrom, ltable[k].pos, ltable[k].ref, ltable[k].alt>>

\* the entries of the index whose key is exactly that of row k
ExactHits(k) == { i \in 1..Len(lindex) : lindex[i].key = TableKey(k) }

\* C18: a row of the feature table is labelled if and only if the index
\* holds an entry whose key equals the row's VariantKey exactly, and then
\* with that entry's label; every other row stays unlabelled.
C18_ExactKeyMatch ==
    lpc = "done" =>
        \A k \in 1..Len(ltable) :
            /\ lcol[k] # NoLabel <=> ExactHits(k) # {}
            /\ ExactHits(k) # {} => lcol[k] = lindex[MaxOf(ExactHits(k))].label

\* the chromosome name c without an optional leading "chr"
WithoutChrPrefix(c) == IF StartsWith(c, <<"c", "h", "r">>) THEN DropN(c, 3) ELSE c

\* C20: the chromosome of a VariantKey is the chromosome name of its line
\* with an optional leading "chr" removed and nothing else changed: every
\* entry of the index carries that name (the feature builder normalizes
\* with the same expression).
C20_OnlyChrPrefixRemoved ==
    \A i \in 1..Len(lindex) :
        lindex[i].key[1] = WithoutChrPrefix(lclin[lindex[i].line].chrom)

\* C24: every component gives the same normalized chromosome for the same
\* chromosome name: the chromosome of an index entry (and of a feature row,
\* normalized with the same expression) is what the extractor's norm_chr
\* gives for the name on the line.
C24_SameNormalization ==
    \A i \in 1..Len(lindex) :
        lindex[i].key[1] = norm_chr(lclin[lindex[i].line].chrom)

\* the lines the index loop has gone through that carry a VariantKey
Keyed == { j \in 1..(li - 1) : ~lclin[j].hash /\ lclin[j].ncols >= 8 /\ IsInt(lclin[j].pos) }

\* the lines among them with the key of line j that resolved to a label
ResolvedFor(j) ==
    { k \in Keyed : /\ ClinKey(lclin[k]) = ClinKey(lclin[j])
                    /\ ClinOutcome(lentry, lclin[k]) = "rec" }

\* C25: when several lines of the source carry the same VariantKey, the
\* index holds the label of the last of them that resolved to a label; a
\* line that resolves to no label neither removes nor changes an entry, and
\* a key none of whose lines resolved has no entry.
C25_LastLabelWins ==
    \A j \in Keyed :
        IndexGet(lindex, ClinKey(lclin[j])) =
            (IF ResolvedFor(j) = {} THEN NoLabel
             ELSE ResolveLabel(ClinTerms(lclin[MaxOf(ResolvedFor(j))])))

\* C25 witness: two lines of the same key, the first benign and the second
\* pathogenic, and a row of the table labelled 1 from the index
C25_Witness ==
    /\ lpc = "done" /\ Len(lclin) = 2
    /\ ResolvedFor(1) = {1, 2}
    /\ ResolveLabel(ClinTerms(lclin[1])) = 0
    /\ ResolveLabel(ClinTerms(lclin[2])) = 1
    /\ \E k \in 1..Len(lcol) : lcol[k] = 1

\* the entries of the INFO column of a line whose key is exactly tag
ExactEntries(line, tag) == { j \in 1..Len(line.info) : line.info[j].key = tag }

\* the terms of the entry of a line whose key is exactly CLNSIG
ExactTerms(line) ==
    LET v == line.info[MinOf(ExactEntries(line, "CLNSIG"))].val
    IN  [i \in 1..Len(v) |-> v[i][1]]

\* C21: the significance terms of a line are the value of the INFO entry
\* whose key is exactly CLNSIG; an entry whose key only ends with that text
\* is never used: every entry of the index comes from a line that has a
\* CLNSIG entry and carries the label its terms resolve to.
C21_ExactKeyUsed ==
    \A i \in 1..Len(lindex) :
        LET line == lclin[lindex[i].line]
        IN  /\ ExactEntries(line, "CLNSIG") # {}
            /\ lindex[i].label = ResolveLabel(ExactTerms(line))

----------------------------------------------------------------------------
(* Properties of scoring and evidence *)

\* the signals of pev
Signals == { pev[i] : i \in 1..Len(pev) }

\* an evidence list was emitted for the row by one of the two app flows
EvidenceEmitted == ppc = "done" /\ pflow \in {"upload", "lookup"} /\ pev # NoEvidence

SiftSignals == {"PP3: SIFT damaging", "SIFT damaging"}

PolyphenSignals ==
    {"PP3: PolyPhen HVAR possibly/probably damaging",
     "PolyPhen (HVAR) possibly/probably damaging"}

\* C15: the evidence list emitted for a row whose SIFT prediction is "D"
\* holds the SIFT damaging signal, and for a row whose PolyPhen HVAR
\* prediction is "D" or "P" the PolyPhen damaging signal.
C15_DamagingSignalEmitted ==
    EvidenceEmitted =>
        /\ prow["SIFT_pred"] = "D" => Signals \cap SiftSignals # {}
        /\ prow["Polyphen2_HVAR_pred"] \in {"D", "P"} => Signals \cap PolyphenSignals # {}

UltraRareSignals == {"PM2_supporting: absent/ultra-rare in gnomAD"}

VeryLowSignals == {"PM2_moderate: very low population AF", "Very low population AF"}

LowSignals == {"BS1_supporting: low AF", "Low population AF"}

\* the allele-frequency signals a row of allele frequency t is to get
TierOf(t) ==
    IF Millionths(t) < UltraRareAF THEN UltraRareSignals
    ELSE IF Millionths(t) < VeryLowAF THEN VeryLowSignals
    ELSE IF Millionths(t) < LowAF THEN LowSignals
    ELSE {}

\* C16: an evidence list holds at most one allele-frequency signal, the one
\* of the row's tier (ultra-rare below 1e-5, very low below 1e-3, low below
\* 1e-2) and none at or above 1e-2, in the upload and in the lookup flow.
C16_SameAfTiers ==
    (EvidenceEmitted /\ prow["gnomADg_AF"] \in FloatTexts) =>
        LET af == Signals \cap (UltraRareSignals \cup VeryLowSignals \cup LowSignals)
            tier == TierOf(prow["gnomADg_AF"])
        IN  /\ af \subseteq tier
            /\ tier # {} => Cardinality(af) = 1

\* C22: the prediction step takes its input table as immutable: after
\* _predict_on_df, the lookup flow's encoding and prep have run, the table the
\* caller passed in still holds the original categorical prediction values.
C22_InputTableUnchanged ==
    ppc \in {"scored", "done"} =>
        \A c \in CatCols : pcaller.rows[1][c] = prow[c]

\* C17: the encoded frame and the model input hold, for each categorical
\* column, 1 when the value is D, P or A and 0 for T, B, N and every other
\* value, in the app's two flows and in the two training scripts.
C17_FixedLookup ==
    ppc \in {"scored", "done"} =>
        \A c \in CatCols :
            LET one == prow[c] = "D" \/ prow[c] = "P" \/ prow[c] = "A"
            IN  /\ pdf.rows[1][c] = (IF one THEN "1.0" ELSE "0.0")
                /\ pX[1][c] = (IF one THEN "1.0" ELSE "0.0")

\* C17 witness: a training matrix built from a row holding a key of the
\* lookup that maps to 1, a "." and an empty value
C17_Witness ==
    /\ ppc = "done" /\ pflow = "xgb"
    /\ prow["SIFT_pred"] = "A" /\ pX[1]["SIFT_pred"] = "1.0"
    /\ prow["Polyphen2_HVAR_pred"] = "." /\ pX[1]["Polyphen2_HVAR_pred"] = "0.0"
    /\ prow["Polyphen2_HDIV_pred"] = "" /\ pX[1]["Polyphen2_HDIV_pred"] = "0.0"

----------------------------------------------------------------------------
(* Properties of the extractor *)

TerminalExt == epc \in {"done", "exit", "crash"}

\* a data line of the variant file that contributes variants
ValidVariantLine(l) == ~l.hash /\ l.ncols >= 5 /\ IsInt(l.pos)

\* the needed set of chromosome ch, read off the variant file
NeededTriples(ch) ==
    UNION { { <<IntOf(vcf[i].pos), vcf[i].ref, vcf[i].alt[j]>> : j \in 1..Len(vcf[i].alt) } :
              i \in { n \in 1..Len(vcf) :
                        ValidVariantLine(vcf[n]) /\ norm_chr(vcf[n].chrom) = ch } }

\* line numbers of the rows of ch's shard that are needed
WantedRows(ch) ==
    { i \in 2..Len(shards[ch].lines) :
        LET r == shards[ch].lines[i]
        IN  /\ r.ncols >= 4
            /\ IsInt(r.pos)
            /\ <<IntOf(r.pos), r.ref, r.alt>> \in NeededTriples(ch) }

\* positions in out of the data rows read from ch's shard
RowsOf(ch) == { k \in 2..Len(out) : outSrc[k][1] = ch }

\* the chromosomes whose scan is complete
ScannedChroms == { need[k].ch : k \in 1..(IF ci = 0 THEN 0 ELSE ci - 1) }

\* C5: the data rows of the merged output are exactly the rows of the scanned
\* shards (first line excluded) whose (position, ref, alt) is in the needed set
\* of the shard's chromosome, verbatim and in shard order; rows with a needed
\* position but another (ref, alt), or with a position not needed, are absent.
C5_ExactlyNeededRows ==
    /\ \A k \in 2..Len(out) :
         /\ outSrc[k][1] \in ScannedChroms
         /\ outSrc[k][2] \in WantedRows(outSrc[k][1])
         /\ out[k] = shards[outSrc[k][1]].lines[outSrc[k][2]]
    /\ \A ch \in ScannedChroms :
         /\ { outSrc[k][2] : k \in RowsOf(ch) } = WantedRows(ch)
         /\ \A j, k \in RowsOf(ch) : j < k => outSrc[j][2] < outSrc[k][2]

\* C5 witness: a finished run that wrote a needed row and passed over a row
\* whose position is needed but whose (ref, alt) is not
C5_Witness ==
    /\ epc = "done"
    /\ Len(out) >= 2
    /\ \E ch \in ScannedChroms : \E i \in 2..Len(shards[ch].lines) :
         LET r == shards[ch].lines[i]
         IN  /\ IsInt(r.pos)
             /\ i \notin WantedRows(ch)
             /\ \E t \in NeededTriples(ch) : t[1] = IntOf(r.pos)

\* every shard that resolves starts with a usable header line
ShardsWellFormed ==
    \A c \in Chroms :
        shards[c].exists => (shards[c].lines # <<>> /\ shards[c].lines[1].ncols >= 2)

NeededChroms == { norm_chr(vcf[i].chrom) : i \in { j \in 1..Len(vcf) : ValidVariantLine(vcf[j]) } }

\* C6: a missing shard of one needed chromosome does not keep the rows of the
\* other needed chromosomes out of the output: at the end of a run the needed
\* rows of every shard that resolves have been emitted.
C6_MissingShardNotFatal ==
    (/\ TerminalExt
     /\ ShardsWellFormed
     /\ \E c \in NeededChroms : ~shards[c].exists)
    => \A c \in NeededChroms :
         shards[c].exists => { outSrc[k][2] : k \in RowsOf(c) } = WantedRows(c)

\* the variant file yields no variants
NoVariants == \A i \in 1..Len(vcf) : ~ValidVariantLine(vcf[i])

\* C7: a run on a variant file without variants ends with the nonzero status
\* ExitNoVariants, a run that scanned every shard and retained no row ends
\* with the nonzero status ExitNoRecords, the two differ, and a run that
\* retained a row does not end with ExitNoRecords.
C7_DistinctStatuses ==
    /\ ExitNoVariants # 0 /\ ExitNoRecords # 0 /\ ExitNoVariants # ExitNoRecords
    /\ (TerminalExt /\ NoVariants) => status = ExitNoVariants
    /\ (TerminalExt /\ epc # "crash" /\ ScannedChroms = NeededChroms /\ ~NoVariants
          /\ Len(out) = 1)
         => status = ExitNoRecords
    /\ (TerminalExt /\ Len(out) >= 2) => status # ExitNoRecords

\* C7 witness: a run that scanned all shards and ended with no row retained
C7_Witness ==
    /\ epc = "exit"
    /\ status = ExitNoRecords
    /\ Len(out) = 1
    /\ \E c \in NeededChroms : Len(shards[c].lines) >= 2

\* the needed chromosome met first in the variant file
FirstChrom ==
    norm_chr(vcf[CHOOSE i \in 1..Len(vcf) :
                    /\ ValidVariantLine(vcf[i])
                    /\ \A j \in 1..(i - 1) : ~ValidVariantLine(vcf[j])].chrom)

\* C8: the merged output starts with one header line, the first line of the
\* first chromosome's shard (the first shard resolved), and no line after it
\* is the first line of a shard.
C8_SingleHeader ==
    out # <<>> =>
        /\ out[1] = shards[FirstChrom].lines[1]
        /\ outSrc[1] = <<FirstChrom, 1>>
        /\ \A k \in 2..Len(out) : outSrc[k][2] # 1

\* C8 witness: rows of two shards with different first lines were merged
C8_Witness ==
    /\ epc = "done"
    /\ \E j, k \in 2..Len(out) :
         /\ outSrc[j][1] # outSrc[k][1]
         /\ shards[outSrc[j][1]].lines[1] # shards[outSrc[k][1]].lines[1]

\* line number of the first variant of chromosome ch in the variant file
FirstSeen(ch) ==
    CHOOSE i \in 1..Len(vcf) :
        /\ ValidVariantLine(vcf[i]) /\ norm_chr(vcf[i].chrom) = ch
        /\ \A j \in 1..(i - 1) :
             ~(ValidVariantLine(vcf[j]) /\ norm_chr(vcf[j].chrom) = ch)

\* C9: the data rows of the merged output are grouped by chromosome, the
\* groups ordered as the chromosomes are first met in the variant file.
C9_ChromOrder ==
    \A j, k \in 2..Len(out) :
        j < k => FirstSeen(outSrc[j][1]) <= FirstSeen(outSrc[k][1])

\* C9 witness: rows of two chromosomes, the one met first not being the one
\* with the smaller name nor the one with more variants
C9_Witness ==
    /\ epc = "done"
    /\ \E j, k \in 2..Len(out) :
         /\ j < k
         /\ outSrc[j][1] = <<"2">>
         /\ outSrc[k][1] = <<"1">>

\* the events of the handles of mode m ("r" read, "w" write), in order
ModeEvents(m) == SelectSeq(elog, LAMBDA e : e.mode = m)

\* s opens and closes in turn: after each event at most one handle is open
Alternates(s) ==
    \A k \in 1..Len(s) : s[k].op = (IF k % 2 = 1 THEN "open" ELSE "close")

\* C23: at every point of a run at most one variant or shard file is open
\* for reading and at most one output handle is open: the header shard is
\* closed before the merged output is opened, a shard before the next one,
\* the merged text before the compression output.
C23_OneHandleAtATime ==
    /\ Alternates(ModeEvents("r"))
    /\ Alternates(ModeEvents("w"))
    /\ \A n \in 1..Len(elog) :
        /\ elog[n] = Ev("open", "w", "tmp_txt") => elog[n - 1] = Ev("close", "r", "shard")
        /\ elog[n] = Ev("open", "w", "out") => elog[n - 1] = Ev("close", "w", "tmp_txt")

\* C23 witness: a finished run that scanned two shards while the merged
\* text was open and then opened the compression output
C23_Witness ==
    /\ epc = "done"
    /\ Len(need) = 2
    /\ \E n \in 1..Len(elog) : elog[n] = Ev("open", "w", "out")
    /\ Cardinality({ n \in 1..Len(elog) : elog[n] = Ev("open", "r", "shard") }) = 3

\* a child process (bgzip, tabix) was run
RanChild == \E i \in 1..Len(elog) : elog[i].op = "run"

============================================================================
